---- MODULE Spec2Model ----
(***************************************************************************)
(* Model of full_outline_extractor.py: the title extractor, the style      *)
(* profiler and the outline builder, run in the order of process_pdf.      *)
(*                                                                         *)
(* A string is a sequence of one-character strings, so that strip, lower,  *)
(* join, substring search and whitespace collapsing are computed and not   *)
(* assumed.  A font size is an integer number of half points (24 = 12.0pt, *)
(* 25 = 12.5pt), so that Python's round-half-to-even is computed too.      *)
(***************************************************************************)
EXTENDS Integers, Sequences, FiniteSets, TLC

VARIABLES doc, pc, title, styles, sorted_styles, style_map, outline, pos, last_op

vars == <<doc, pc, title, styles, sorted_styles, style_map, outline, pos, last_op>>

----------------------------------------------------------------------------
(* Bounds of the documents explored. *)
MaxPages == 2
MaxLines == 3

----------------------------------------------------------------------------
(* Strings *)

Whitespace == {" ", "\n", "\t"}

UpperChars == <<"A","B","C","D","E","F","G","H","I","J","K","L","M",
                "N","O","P","Q","R","S","T","U","V","W","X","Y","Z">>
LowerChars == <<"a","b","c","d","e","f","g","h","i","j","k","l","m",
                "n","o","p","q","r","s","t","u","v","w","x","y","z">>

LowerOf ==
    [c \in {UpperChars[i] : i \in 1..Len(UpperChars)} |->
        LowerChars[CHOOSE i \in 1..Len(UpperChars) : UpperChars[i] = c]]

LowerChar(c) == IF c \in DOMAIN LowerOf THEN LowerOf[c] ELSE c

(* str.lower() *)
Lower(s) == [i \in 1..Len(s) |-> LowerChar(s[i])]

RECURSIVE LStrip(_)
LStrip(s) ==
    IF s = <<>> THEN <<>>
    ELSE IF Head(s) \in Whitespace THEN LStrip(Tail(s)) ELSE s

RECURSIVE RStrip(_)
RStrip(s) ==
    IF s = <<>> THEN <<>>
    ELSE IF s[Len(s)] \in Whitespace THEN RStrip(SubSeq(s, 1, Len(s) - 1)) ELSE s

(* str.strip() *)
Strip(s) == RStrip(LStrip(s))

(* needle in haystack *)
Contains(haystack, needle) ==
    \E i \in 0..(Len(haystack) - Len(needle)) :
        SubSeq(haystack, i + 1, i + Len(needle)) = needle

(* sep.join(parts) *)
RECURSIVE Join(_, _)
Join(sep, parts) ==
    IF parts = <<>> THEN <<>>
    ELSE IF Len(parts) = 1 THEN parts[1]
    ELSE parts[1] \o sep \o Join(sep, Tail(parts))

(* "".join(parts) *)
RECURSIVE Concat(_)
Concat(parts) ==
    IF parts = <<>> THEN <<>> ELSE Head(parts) \o Concat(Tail(parts))

(* s.replace("\n", " ") *)
ReplaceNewlines(s) == [i \in 1..Len(s) |-> IF s[i] = "\n" THEN " " ELSE s[i]]

(* re.sub(r'\s+', ' ', s) *)
RECURSIVE CollapseWhitespace(_)
CollapseWhitespace(s) ==
    IF s = <<>> THEN <<>>
    ELSE IF Head(s) \in Whitespace
         THEN <<" ">> \o CollapseWhitespace(LStrip(Tail(s)))
         ELSE <<Head(s)>> \o CollapseWhitespace(Tail(s))

(* The string literals of the program. *)
Untitled == <<"U","n","t","i","t","l","e","d">>
SyllabusWord == <<"s","y","l","l","a","b","u","s">>
OverviewWord == <<"o","v","e","r","v","i","e","w">>
BoldWord == <<"b","o","l","d">>
HeadingLevels == <<"H1", "H2", "H3">>

----------------------------------------------------------------------------
(* Spans, lines, blocks, pages *)

(* round(span['size']) on a size given in half points: halves go to the    *)
(* even neighbour.                                                         *)
Round(h) ==
    IF h % 2 = 0 THEN h \div 2
    ELSE IF ((h - 1) \div 2) % 2 = 0 THEN (h - 1) \div 2 ELSE (h + 1) \div 2

IsBold(span) == Contains(Lower(span.font), BoldWord)

(* (round(span['size']), "bold" in span['font'].lower()) *)
StyleKey(span) == <<Round(span.size), IsBold(span)>>

(* flattening of a sequence of sequences, in order *)
RECURSIVE Flatten(_)
Flatten(ss) ==
    IF ss = <<>> THEN <<>> ELSE Head(ss) \o Flatten(Tail(ss))

(* the lines of the text blocks (type 0) of a page, in document order *)
TextLines(page) ==
    Flatten([b \in 1..Len(page) |->
                IF page[b].type = 0 THEN page[b].lines ELSE <<>>])

(* all spans of the text blocks of a page, in document order *)
PageSpans(page) == Flatten(TextLines(page))

----------------------------------------------------------------------------
(* analyze_document_styles *)

(* a mutant of StylePages: the slice starts at the first page *)
StylePagesFromFirst(d) == SubSeq(d, 1, Len(d))

(* doc[1:] *)
StylePages(d) == SubSeq(d, 2, Len(d))

(* a mutant of IsSubstantial: the text is measured without being stripped *)
IsSubstantialUnstripped(span) == Len(span.text) > 1

(* len(span['text'].strip()) > 1 *)
IsSubstantial(span) == Len(Strip(span.text)) > 1

(* styles[key] += 1 on a Counter, which keeps its keys in insertion order *)
CounterAdd(c, k) ==
    IF \E i \in 1..Len(c) : c[i].key = k
    THEN [i \in 1..Len(c) |-> IF c[i].key = k
                               THEN [key |-> k, n |-> c[i].n + 1]
                               ELSE c[i]]
    ELSE Append(c, [key |-> k, n |-> 1])

RECURSIVE CountSpans(_, _)
CountSpans(c, spans) ==
    IF spans = <<>> THEN c
    ELSE CountSpans(IF IsSubstantial(Head(spans))
                    THEN CounterAdd(c, StyleKey(Head(spans)))
                    ELSE c,
                    Tail(spans))

(* the Counter after the loop over doc[1:] *)
CountStyles(d) ==
    LET pages == StylePages(d)
    IN CountSpans(<<>>, Flatten([p \in 1..Len(pages) |-> PageSpans(pages[p])]))

(* one step of a stable sort by size, descending: k goes after every       *)
(* element whose size is at least its own                                  *)
RECURSIVE InsertBySize(_, _)
InsertBySize(sorted, k) ==
    IF sorted = <<>> THEN <<k>>
    ELSE IF Head(sorted)[1] >= k[1]
         THEN <<Head(sorted)>> \o InsertBySize(Tail(sorted), k)
         ELSE <<k>> \o sorted

RECURSIVE SortBySize(_, _)
SortBySize(sorted, keys) ==
    IF keys = <<>> THEN sorted
    ELSE SortBySize(InsertBySize(sorted, Head(keys)), Tail(keys))

(* sorted(styles.keys(), key=lambda x: x[0], reverse=True) *)
SortedStyles(c) == SortBySize(<<>>, [i \in 1..Len(c) |-> c[i].key])

(* a mutant of FinalHeadingStyles: the largest style is never discarded *)
FinalHeadingStylesKeepAll(sorted) == sorted

(* a mutant of FinalHeadingStyles: the largest style is discarded as soon  *)
(* as there are two styles                                                 *)
FinalHeadingStylesFromTwo(sorted) ==
    IF Len(sorted) > 1 THEN Tail(sorted) ELSE sorted

(* sorted_styles[1:] if len(sorted_styles) > 2 else sorted_styles *)
FinalHeadingStyles(sorted) ==
    IF Len(sorted) > 2 THEN Tail(sorted) ELSE sorted

(* the dict filled by the loop over enumerate(final_heading_styles) *)
StyleMapOf(final) ==
    LET mapped == {i \in 1..Len(final) : i - 1 < Len(HeadingLevels)}
    IN [k \in {final[i] : i \in mapped} |->
            HeadingLevels[CHOOSE i \in mapped :
                              /\ final[i] = k
                              /\ \A j \in mapped : final[j] = k => j <= i]]

----------------------------------------------------------------------------
(* extract_title *)

RECURSIVE MaxRoundedSize(_, _)
MaxRoundedSize(max_size, spans) ==
    IF spans = <<>> THEN max_size
    ELSE MaxRoundedSize(IF Round(Head(spans).size) > max_size
                        THEN Round(Head(spans).size)
                        ELSE max_size,
                        Tail(spans))

(* a mutant of TitleLineText: the spans are not filtered by size *)
TitleLineTextAllSpans(line, max_size) ==
    Strip(Concat([i \in 1..Len(line) |-> line[i].text]))

(* "".join(span['text'] for span in line['spans']                          *)
(*         if round(span['size']) == max_size).strip()                     *)
TitleLineText(line, max_size) ==
    LET kept == SelectSeq(line, LAMBDA sp : Round(sp.size) = max_size)
    IN Strip(Concat([i \in 1..Len(kept) |-> kept[i].text]))

TitleParts(page, max_size) ==
    LET lines == TextLines(page)
        texts == [i \in 1..Len(lines) |-> TitleLineText(lines[i], max_size)]
    IN SelectSeq(texts, LAMBDA t : t # <<>>)

(* a mutant of ExtractTitle: no early return when max_size is 0 *)
ExtractTitleNoSentinel(d) ==
    LET first_page == d[1]
        max_size == MaxRoundedSize(0, PageSpans(first_page))
    IN Strip(ReplaceNewlines(Join(<<" ">>, TitleParts(first_page, max_size))))

ExtractTitle(d) ==
    LET first_page == d[1]
        max_size == MaxRoundedSize(0, PageSpans(first_page))
    IN IF max_size = 0 THEN Untitled
       ELSE Strip(ReplaceNewlines(Join(<<" ">>, TitleParts(first_page, max_size))))

----------------------------------------------------------------------------
(* build_outline *)

(* the lines visited by the three nested loops, each with its page number *)
ScanItems(d) ==
    Flatten([p \in 1..Len(d) |->
                LET lines == TextLines(d[p])
                IN [i \in 1..Len(lines) |-> [page_num |-> p, line |-> lines[i]]]])

(* " ".join(s["text"].strip() for s in line["spans"]).strip(), then        *)
(* re.sub(r'\s+', ' ', line_text)                                          *)
LineText(line) ==
    CollapseWhitespace(
        Strip(Join(<<" ">>, [i \in 1..Len(line) |-> Strip(line[i].text)])))

(* a mutant of IsShort: only texts of fewer than 2 characters are short *)
IsShortBelowTwo(line_text) == Len(line_text) < 2

(* len(line_text) < 3 *)
IsShort(line_text) == Len(line_text) < 3

(* the condition of the merge heuristic *)
IsSyllabusMerge(line_text, out) ==
    /\ Lower(line_text) = SyllabusWord
    /\ out # <<>>
    /\ Contains(Lower(out[Len(out)].text), OverviewWord)

(* a mutant of MergeIntoLast: the texts are joined by a space *)
MergeIntoLastSpaced(out, line_text) ==
    [out EXCEPT ![Len(out)].text = @ \o <<" ">> \o line_text]

(* outline[-1]['text'] += line_text *)
MergeIntoLast(out, line_text) ==
    [out EXCEPT ![Len(out)].text = @ \o line_text]

(* append unless the last entry has the same text *)
AppendEntry(out, entry) ==
    IF out = <<>> \/ out[Len(out)].text # entry.text
    THEN Append(out, entry)
    ELSE out

----------------------------------------------------------------------------
(* The documents explored: every arrangement of at most MaxLines lines of  *)
(* one pool into at most MaxPages pages.  A page without lines has no      *)
(* block or one image block; a page with lines has them in one text block, *)
(* or in two text blocks around an image block.                            *)

Span(text, size, font) == [text |-> text, size |-> size, font |-> font]

Regular == <<"A","r","i","a","l">>
BoldFont == <<"A","r","i","a","l","-","B","o","l","d">>
BoldUpper == <<"H","E","L","V","B","O","L","D">>

(* lines of a title page: sizes 20.0, 12.0, 19.5 and 10.0 points; 19.5     *)
(* points rounds to 20                                                     *)
TitlePool ==
    { <<Span(<<"B","i","g">>, 40, Regular),
        Span(<<"m","i","d">>, 24, Regular),
        Span(<<"\n","T"," ">>, 39, BoldFont)>>,
      <<Span(<<" "," ">>, 40, Regular)>>,
      <<Span(<<"x">>, 20, Regular), Span(<<"n","o","t","e">>, 24, Regular)>> }

(* lines carrying the styles 16 bold, 12, 12 bold, 14, 14 bold, 10 and 8;   *)
(* 12.5 points rounds to 12, and the 18 point span is a single character   *)
StylePool ==
    { <<Span(<<"H","e","a","d">>, 32, BoldFont),
        Span(<<"t","e","x","t">>, 24, Regular),
        Span(<<"m","o","r","e">>, 25, BoldUpper)>>,
      <<Span(<<"S","u","b">>, 28, Regular), Span(<<" ","Q"," ">>, 36, Regular)>>,
      <<Span(<<"S","x","y">>, 28, BoldUpper)>>,
      <<Span(<<"n","o","t","e">>, 20, Regular),
        Span(<<"a","b"," ">>, 25, Regular),
        Span(<<"w","e","e">>, 16, Regular)>> }

(* heading lines around the merge heuristic, in two styles, and a line     *)
(* whose text is 2 characters long once normalized                         *)
MergePool ==
    { <<Span(<<"O","v","e","r","v","i","e","w","S","y","l","l","a","b","u","s">>,
             28, BoldFont)>>,
      <<Span(<<"O","v","e","r","v","i","e","w">>, 28, BoldFont)>>,
      <<Span(<<"S","y","l","l","a","b","u","s">>, 24, Regular)>>,
      <<Span(<<"a","b","\t">>, 28, BoldFont), Span(<<" ">>, 32, Regular)>> }

(* heading lines in one style whose texts come from several spans and     *)
(* need stripping and collapsing, and a line without spans                 *)
HeadingPool ==
    { <<Span(<<"C","o","u","r","s","e">>, 28, BoldFont),
        Span(<<>>, 24, Regular),
        Span(<<"O","v","e","r","v","i","e","w","\n">>, 24, Regular)>>,
      <<Span(<<" ","s","y","l","l","a","b","u","s","\t">>, 28, BoldFont),
        Span(<<" ">>, 24, Regular)>>,
      <<>> }

ImageBlock == [type |-> 1, lines |-> <<>>]

TextBlock(lines) == [type |-> 0, lines |-> lines]

(* A block shape is -1 for an image block, or the number of lines of a    *)
(* text block; a page shape is a sequence of block shapes and a document   *)
(* shape a sequence of page shapes.                                        *)
LinesOf(bshape) == IF bshape = -1 THEN 0 ELSE bshape

(* the page shapes holding exactly k lines *)
PageShapes(k) ==
    IF k = 0 THEN {<<>>, <<-1>>}
    ELSE {<<k>>} \cup (IF k >= 2 THEN {<<1, -1, k - 1>>} ELSE {})

(* the document shapes of at most p pages holding exactly k lines *)
RECURSIVE DocShapes(_, _)
DocShapes(k, p) ==
    (IF k = 0 THEN {<<>>} ELSE {})
        \cup (IF p = 0 THEN {}
              ELSE UNION {{<<pg>> \o rest : pg \in PageShapes(j),
                                            rest \in DocShapes(k - j, p - 1)}
                          : j \in 0..k})

RECURSIVE LinesOfPage(_)
LinesOfPage(pshape) ==
    IF pshape = <<>> THEN 0 ELSE LinesOf(Head(pshape)) + LinesOfPage(Tail(pshape))

RECURSIVE LinesOfPages(_)
LinesOfPages(dshape) ==
    IF dshape = <<>> THEN 0 ELSE LinesOfPage(Head(dshape)) + LinesOfPages(Tail(dshape))

(* the page of shape pshape whose lines are ls[from + 1], ls[from + 2], ... *)
FillPage(pshape, ls, from) ==
    [b \in 1..Len(pshape) |->
        IF pshape[b] = -1 THEN ImageBlock
        ELSE LET start == from + LinesOfPage(SubSeq(pshape, 1, b - 1))
             IN TextBlock(SubSeq(ls, start + 1, start + pshape[b]))]

(* the document of shape dshape whose lines are those of ls, in order *)
FillDocument(dshape, ls) ==
    [p \in 1..Len(dshape) |->
        FillPage(dshape[p], ls, LinesOfPages(SubSeq(dshape, 1, p - 1)))]

Pools == {TitlePool, StylePool, MergePool, HeadingPool}

(* doc is a document of at least one page over one of the pools *)
IsInputDocument(d) ==
    \E pool \in Pools : \E k \in 0..MaxLines :
        \E dshape \in DocShapes(k, MaxPages) \ {<<>>} :
            \E ls \in [1..k -> pool] : d = FillDocument(dshape, ls)

----------------------------------------------------------------------------
(* The run of process_pdf on one document *)

Init ==
    /\ IsInputDocument(doc)
    /\ pc = "title"
    /\ title = <<>>
    /\ styles = <<>>
    /\ sorted_styles = <<>>
    /\ style_map = <<>>
    /\ outline = <<>>
    /\ pos = 0
    /\ last_op = "none"

(* title = extract_title(doc) *)
DoExtractTitle ==
    /\ pc = "title"
    /\ title' = ExtractTitle(doc)
    /\ pc' = "styles"
    /\ UNCHANGED <<doc, styles, sorted_styles, style_map, outline, pos, last_op>>

(* style_map = analyze_document_styles(doc) *)
DoAnalyzeStyles ==
    /\ pc = "styles"
    /\ styles' = CountStyles(doc)
    /\ IF styles' = <<>>
       THEN /\ sorted_styles' = <<>>
            /\ style_map' = <<>>
       ELSE /\ sorted_styles' = SortedStyles(styles')
            /\ style_map' = StyleMapOf(FinalHeadingStyles(sorted_styles'))
    /\ pc' = "outline"
    /\ UNCHANGED <<doc, title, outline, pos, last_op>>

(* build_outline up to its loop: the early return on an empty style map *)
BuildOutlineEnter ==
    /\ pc = "outline"
    /\ outline' = <<>>
    /\ IF DOMAIN style_map = {}
       THEN pc' = "done" /\ pos' = pos
       ELSE pc' = "scan" /\ pos' = 1
    /\ UNCHANGED <<doc, title, styles, sorted_styles, style_map, last_op>>

(* one iteration of the innermost loop of build_outline *)
ScanLine ==
    /\ pc = "scan"
    /\ pos <= Len(ScanItems(doc))
    /\ LET item == ScanItems(doc)[pos]
           line == item.line
           line_text == LineText(line)
           heading_style_keys == DOMAIN style_map
       IN IF line = <<>>
          THEN outline' = outline /\ last_op' = "no_spans"
          ELSE IF IsShort(line_text)
          THEN outline' = outline /\ last_op' = "short"
          ELSE IF StyleKey(line[1]) \notin heading_style_keys
          THEN outline' = outline /\ last_op' = "not_heading"
          ELSE IF IsSyllabusMerge(line_text, outline)
          THEN /\ outline' = MergeIntoLast(outline, line_text)
               /\ last_op' = "merge"
          ELSE LET entry == [level |-> style_map[StyleKey(line[1])],
                             text |-> line_text,
                             page |-> item.page_num]
               IN /\ outline' = AppendEntry(outline, entry)
                  /\ last_op' = IF outline' = outline THEN "duplicate" ELSE "append"
    /\ pos' = pos + 1
    /\ UNCHANGED <<doc, pc, title, styles, sorted_styles, style_map>>

(* the loops are exhausted: return outline *)
ReturnOutline ==
    /\ pc = "scan"
    /\ pos > Len(ScanItems(doc))
    /\ pc' = "done"
    /\ UNCHANGED <<doc, title, styles, sorted_styles, style_map, outline, pos, last_op>>

Next ==
    \/ DoExtractTitle
    \/ DoAnalyzeStyles
    \/ BuildOutlineEnter
    \/ ScanLine
    \/ ReturnOutline

Spec == Init /\ [][Next]_vars

----------------------------------------------------------------------------
(* Properties *)

(* build_outline has returned: the run is over *)
Returned == pc = "done"

(* extract_title, analyze_document_styles have just returned *)
TitleReturned == pc = "styles"

StylesReturned == pc = "outline"

(* the set of spans of the text blocks of a page *)
SpanSet(page) ==
    UNION {UNION {{page[b].lines[l][i] : i \in 1..Len(page[b].lines[l])}
                  : l \in 1..Len(page[b].lines)}
           : b \in {c \in 1..Len(page) : page[c].type = 0}}

(* the spans of the text blocks of pages 2..N, and of page 1 *)
LaterSpans == UNION {SpanSet(doc[p]) : p \in 2..Len(doc)}

FirstPageSpans == SpanSet(doc[1])

(* the distinct styles of the spans of pages 2..N whose stripped text is   *)
(* longer than one character                                               *)
ObservedStyles ==
    {StyleKey(sp) : sp \in {s \in LaterSpans : Len(Strip(s.text)) >= 2}}

(* seq lists every style of S once, largest size first *)
IsSizeRanking(seq, S) ==
    /\ Len(seq) = Cardinality(S)
    /\ {seq[i] : i \in 1..Len(seq)} = S
    /\ \A i, j \in 1..Len(seq) : i < j => seq[i][1] >= seq[j][1]

(* the largest size among the styles of S *)
MaxSizeOf(S) ==
    LET sizes == {k[1] : k \in S}
    IN CHOOSE m \in sizes : \A n \in sizes : n <= m


(* every style of a span, of any length, of pages 2..N and of page 1 *)
LaterStyles == {StyleKey(sp) : sp \in LaterSpans}

FirstPageStyles == {StyleKey(sp) : sp \in FirstPageSpans}

NoAdjacentDuplicates(out) ==
    \A i \in 1..(Len(out) - 1) : out[i].text # out[i + 1].text

(* C1: at every point of the scan of build_outline, and in the outline it  *)
(* returns, no two consecutive entries have exactly the same text.         *)
C1_NoAdjacentDuplicates == NoAdjacentDuplicates(outline)

ScanInProgress == pc = "scan" /\ pos <= Len(ScanItems(doc))

CurrentLine == ScanItems(doc)[pos].line

IsRecognized(line) == line # <<>> /\ StyleKey(line[1]) \in DOMAIN style_map

(* C3: when a recognized line reads 'syllabus' in any case and the last    *)
(* entry's text contains 'overview' in any case, the step appends nothing: *)
(* the last entry keeps its level and page and its text becomes the old    *)
(* text directly followed by the line's text; the other entries are kept.  *)
C3_SyllabusMerge ==
    [][ScanInProgress =>
          LET line == CurrentLine
              text == LineText(line)
              last == Len(outline)
          IN (/\ IsRecognized(line)
              /\ Lower(text) = <<"s","y","l","l","a","b","u","s">>
              /\ outline # <<>>
              /\ Contains(Lower(outline[last].text),
                          <<"o","v","e","r","v","i","e","w">>))
             => (/\ Len(outline') = last
                 /\ \A i \in 1..(last - 1) : outline'[i] = outline[i]
                 /\ outline'[last].level = outline[last].level
                 /\ outline'[last].page = outline[last].page
                 /\ outline'[last].text = outline[last].text \o text)]_vars

(* a merge has just happened, of a line whose style maps to another level  *)
(* than that of the entry it was merged into                               *)
C3_Witness ==
    /\ last_op = "merge"
    /\ pos > 1
    /\ outline # <<>>
    /\ style_map[StyleKey(ScanItems(doc)[pos - 1].line[1])]
           # outline[Len(outline)].level

(* C4: the StyleMap has at most 3 entries, its values are H1, H2 or H3,    *)
(* every key is the style of a span of pages 2..N whose stripped text is   *)
(* longer than 1 character, and no style seen only on page 1 is a key.     *)
C4_StyleMapShape ==
    StylesReturned =>
        /\ Cardinality(DOMAIN style_map) <= 3
        /\ \A k \in DOMAIN style_map : style_map[k] \in {"H1", "H2", "H3"}
        /\ DOMAIN style_map \subseteq ObservedStyles
        /\ (FirstPageStyles \ LaterStyles) \cap DOMAIN style_map = {}

(* a run has returned a full StyleMap on 5 styles or more, with a style    *)
(* seen on page 1 only                                                     *)
C4_Witness ==
    /\ Returned
    /\ Cardinality(DOMAIN style_map) = 3
    /\ Cardinality(ObservedStyles) > 4
    /\ FirstPageStyles \ LaterStyles # {}

(* no line of the document has a leading span whose style is a key *)
NoLineRecognized ==
    \A i \in 1..Len(ScanItems(doc)) : ~IsRecognized(ScanItems(doc)[i].line)

(* C5: when the StyleMap is non-empty and no line's leading style is a key *)
(* of it, the run ends with an empty outline and a non-empty title.        *)
C5_EmptyOutlineNonEmptyTitle ==
    (Returned /\ DOMAIN style_map # {} /\ NoLineRecognized) =>
        (outline = <<>> /\ title # <<>>)

(* C6: with 1 or 2 distinct styles on pages 2..N nothing is rejected: the  *)
(* keys of the StyleMap are exactly the observed styles, the first of the  *)
(* size ranking maps to H1, the second if any to H2, and none to H3.       *)
C6_NoRejectionUpToTwoStyles ==
    StylesReturned =>
        LET observed == ObservedStyles
        IN Cardinality(observed) \in {1, 2} =>
               /\ IsSizeRanking(sorted_styles, observed)
               /\ DOMAIN style_map = observed
               /\ Cardinality(DOMAIN style_map) = Cardinality(observed)
               /\ style_map[sorted_styles[1]] = "H1"
               /\ (Cardinality(observed) = 2 => style_map[sorted_styles[2]] = "H2")
               /\ \A k \in DOMAIN style_map : style_map[k] # "H3"

(* a run has returned on exactly 2 styles *)
C6_Witness ==
    /\ Returned
    /\ Cardinality(ObservedStyles) = 2
    /\ style_map[sorted_styles[1]] = "H1"
    /\ style_map[sorted_styles[2]] = "H2"

(* C7: a one-page document yields an empty StyleMap, an empty outline and  *)
(* a title; and whenever the StyleMap is empty the outline is empty.       *)
C7_SinglePageEmptyOutline ==
    /\ (StylesReturned /\ Len(doc) = 1) => DOMAIN style_map = {}
    /\ (Returned /\ Len(doc) = 1) => (outline = <<>> /\ title \in Seq(STRING))
    /\ (pc \in {"scan", "done"} /\ DOMAIN style_map = {}) =>
           (outline = <<>> /\ pc = "done")

(* a one-page run has returned, on a page with a line long enough to be a  *)
(* heading                                                                 *)
C7_Witness ==
    /\ Returned
    /\ Len(doc) = 1
    /\ \E i \in 1..Len(ScanItems(doc)) :
           /\ ScanItems(doc)[i].line # <<>>
           /\ Len(LineText(ScanItems(doc)[i].line)) >= 3
    /\ outline = <<>>
    /\ title # <<>>

(* the texts of the spans of a line whose rounded size is max, in order,   *)
(* concatenated                                                            *)
RECURSIVE MaxSizeText(_, _)
MaxSizeText(line, max) ==
    IF line = <<>> THEN <<>>
    ELSE (IF Round(Head(line).size) = max THEN Head(line).text ELSE <<>>)
             \o MaxSizeText(Tail(line), max)

RECURSIVE NonEmptyFragments(_, _)
NonEmptyFragments(lines, max) ==
    IF lines = <<>> THEN <<>>
    ELSE LET fragment == Strip(MaxSizeText(Head(lines), max))
         IN (IF fragment # <<>> THEN <<fragment>> ELSE <<>>)
                \o NonEmptyFragments(Tail(lines), max)

FirstPageSizes == {Round(sp.size) : sp \in FirstPageSpans}

FirstPageMaxSize == CHOOSE m \in FirstPageSizes : \A n \in FirstPageSizes : n <= m

(* C8: when page 1 has spans of more than one rounded size, the title is   *)
(* the space-joined, newline-free, stripped sequence of the non-empty      *)
(* stripped concatenations of each line's maximum-size spans, and holds no *)
(* character other than a space that no maximum-size span has.             *)
C8_TitleFromMaxSizeSpans ==
    TitleReturned =>
        LET spans == FirstPageSpans
            sizes == {Round(sp.size) : sp \in spans}
            max == CHOOSE m \in sizes : \A n \in sizes : n <= m
            chars == UNION {{sp.text[j] : j \in 1..Len(sp.text)}
                            : sp \in {t \in spans : Round(t.size) = max}}
        IN Cardinality(sizes) > 1 =>
               /\ title = Strip(ReplaceNewlines(
                              Join(<<" ">>, NonEmptyFragments(TextLines(doc[1]), max))))
               /\ \A i \in 1..Len(title) : title[i] = " " \/ title[i] \in chars

(* the title was taken from a line mixing maximum-size and smaller spans,  *)
(* and from a second line                                                  *)
C8_Witness ==
    /\ Returned
    /\ Cardinality(FirstPageSizes) > 1
    /\ Len(NonEmptyFragments(TextLines(doc[1]), FirstPageMaxSize)) > 1
    /\ \E i \in 1..Len(TextLines(doc[1])) :
           LET line == TextLines(doc[1])[i]
           IN /\ \E j \in 1..Len(line) : Round(line[j].size) = FirstPageMaxSize
              /\ \E j \in 1..Len(line) : Round(line[j].size) # FirstPageMaxSize
    /\ Contains(title, <<" ">>)

NoTextBlock(page) == \A b \in 1..Len(page) : page[b].type # 0

(* C9: when page 1 has no text block, the title is "Untitled".             *)
C9_UntitledWithoutTextBlocks ==
    (TitleReturned /\ NoTextBlock(doc[1])) =>
        title = <<"U","n","t","i","t","l","e","d">>

C9_Witness ==
    /\ Returned
    /\ doc[1] # <<>>
    /\ NoTextBlock(doc[1])
    /\ title = <<"U","n","t","i","t","l","e","d">>

(* C10: a line whose normalized text is shorter than 3 characters leaves   *)
(* the outline unchanged, and every entry of the outline has a text of at  *)
(* least 3 characters.                                                     *)
C10_ShortLinesNeverEmitted ==
    [][/\ ScanInProgress =>
              LET line == CurrentLine
              IN (line # <<>> /\ Len(LineText(line)) < 3) => outline' = outline
       /\ \A i \in 1..Len(outline') : Len(outline'[i].text) >= 3]_vars

(* a short line in a heading style has just been skipped *)
C10_Witness ==
    /\ last_op = "short"
    /\ pos > 1
    /\ IsRecognized(ScanItems(doc)[pos - 1].line)
    /\ Len(LineText(ScanItems(doc)[pos - 1].line)) = 2
    /\ outline # <<>>

====
